---- MODULE Spec2Model ----
(***************************************************************************)
(* NetCtrl (3443eee/netctrl): the process blocker (iptables rules per      *)
(* process, include/netctrl.hpp lines 94-336), the lag controller          *)
(* (global DROP rules / tc netem, include/netctrl.hpp lines 439-636) and   *)
(* the two command-line programs that drive them.                          *)
(*                                                                         *)
(* The Linux build is modelled (the #else branches).  External commands    *)
(* run through system()/popen() are modelled by their effect on the        *)
(* iptables chains and by a nondeterministic exit status.                  *)
(***************************************************************************)
EXTENDS Integers, FiniteSets, Sequences, TLC

\* ------------------------------------------------------------------ bounds
\* Process identifiers that pgrep can report.
MaxPid == 2
\* Public calls a client makes on one controller before destroying it.
MaxCalls == 3
\* Public calls a client makes on one lag controller before destroying it.
MaxLagCalls == 2
\* Backgrounded commands in flight: the client of the lag controller makes
\* its next call only when that call leaves at most this many.
MaxPending == 5
\* Threads constructing blocker objects, and objects each of them constructs.
MaxThreads == 3
MaxObjects == 2

Pids == 1..MaxPid
ProcNames == {"sober", "other"}
Cgroups == {"app-sober", "app-other"}

\* The processes of the machine: odd PIDs run "sober", even PIDs "other".
NameOfPid(pid) == IF pid % 2 = 1 THEN "sober" ELSE "other"

\* pgrep -x '<name>': the PIDs whose name matches exactly.
PidsOf(name) == {p \in Pids : NameOfPid(p) = name}

\* The last ':'-separated field of the first line of /proc/<pid>/cgroup when
\* the process runs in a flatpak / app- scope.
CgroupPathOf(pid) == IF NameOfPid(pid) = "sober" THEN "app-sober" ELSE "app-other"

VARIABLES
    \* ---- process blocker object (netctrl.hpp 151-158)
    process_name_,
    blocked_pids_out_,
    blocked_pids_in_,
    blocked_cgroup_,
    is_blocked_outbound_,
    is_blocked_inbound_,
    \* ---- static std::atomic<bool> setup of init() and the commands it issued
    setup,
    setupCmds,
    \* ---- the kernel's NETCTRL_OUT / NETCTRL_IN chains: how many copies of
    \* ---- each rule the chain holds
    NETCTRL_OUT,
    NETCTRL_IN,
    \* ---- control: program position, return continuations, locals of the
    \* ---- running library call, last return value, local `out` of block()
    pc,
    stack,
    loc,
    retval,
    out,
    \* ---- the command-line program: g_ctrl, exit code, handler running
    \* ---- and the process name it targets
    g_ctrl,
    exit_code,
    in_handler,
    target,
    \* ---- threads constructing NetCtrl objects: position, the value
    \* ---- setup.exchange(true) returned, objects constructed
    ctor,
    \* ---- lag controller object (netctrl.hpp 498-501)
    is_active_,
    current_lag_ms_,
    current_drop_percent_,
    default_iface_,
    \* ---- the kernel's OUTPUT / INPUT chains (DROP-all rules), the root
    \* ---- qdisc of the interface, and the backgrounded commands in flight
    OUTPUT,
    INPUT,
    qdisc,
    pending,
    \* ---- history of the run (not program state)
    h,
    lh,
    ev

pbVars == <<process_name_, blocked_pids_out_, blocked_pids_in_, blocked_cgroup_,
            is_blocked_outbound_, is_blocked_inbound_, setup, setupCmds,
            NETCTRL_OUT, NETCTRL_IN, pc, stack, loc, retval, out,
            g_ctrl, exit_code, in_handler, target, ctor, h, ev>>

lagVars == <<is_active_, current_lag_ms_, current_drop_percent_, default_iface_,
             OUTPUT, INPUT, qdisc, pending, lh>>

lagObjVars == <<is_active_, current_lag_ms_, current_drop_percent_>>

\* Everything of the blocker but pc, retval and ev, which both programs use.
pbVars_but_ctl == <<process_name_, blocked_pids_out_, blocked_pids_in_, blocked_cgroup_,
                    is_blocked_outbound_, is_blocked_inbound_, setup, setupCmds,
                    NETCTRL_OUT, NETCTRL_IN, stack, loc, out,
                    g_ctrl, exit_code, in_handler, target, ctor, h>>

objVars == <<process_name_, blocked_pids_out_, blocked_pids_in_, blocked_cgroup_,
             is_blocked_outbound_, is_blocked_inbound_>>

chainVars == <<NETCTRL_OUT, NETCTRL_IN>>

\* What no step of the blocker library touches.
restVars == <<g_ctrl, exit_code, in_handler, target, ctor, lagVars>>

\* ------------------------------------------------------------ threads
\* Threads that construct NetCtrl objects, each up to MaxObjects of them.
Threads == 1..MaxThreads

NoCtor == [pc |-> [t \in Threads |-> "idle"], old |-> [t \in Threads |-> FALSE],
           made |-> [t \in Threads |-> 0]]

\* ------------------------------------------------------------ iptables
EmptyChain == [owner |-> [p \in Pids |-> 0], cgroup |-> [c \in Cgroups |-> 0]]

\* iptables -w -A <chain> -m owner --pid-owner <pid> -j DROP: appends a rule,
\* also when an equal rule is already in the chain.
AppendOwner(chain, pid) == [chain EXCEPT !.owner[pid] = @ + 1]

\* iptables -w -A <chain> -m cgroup --path <cg> -j DROP
AppendCgroup(chain, cg) == [chain EXCEPT !.cgroup[cg] = @ + 1]

\* iptables -w -D <chain> -m owner --pid-owner <pid> -j DROP: deletes ONE
\* matching rule (the first); when ok is FALSE the command failed.
DeleteOwner(chain, pid, ok) ==
    IF ok /\ chain.owner[pid] > 0 THEN [chain EXCEPT !.owner[pid] = @ - 1] ELSE chain

\* iptables -w -D <chain> -m cgroup --path <cg> -j DROP
DeleteCgroup(chain, cg, ok) ==
    IF ok /\ chain.cgroup[cg] > 0 THEN [chain EXCEPT !.cgroup[cg] = @ - 1] ELSE chain

RECURSIVE SumOver(_, _)
SumOver(f, S) == IF S = {} THEN 0
                 ELSE LET x == CHOOSE y \in S : TRUE IN f[x] + SumOver(f, S \ {x})

\* Number of rules installed in a chain.
RuleCount(chain) == SumOver(chain.owner, Pids) + SumOver(chain.cgroup, Cgroups)

\* ------------------------------------------------------------ object
\* The controller's own record of what it applied.
Obj == [name |-> process_name_, pids_out |-> blocked_pids_out_,
        pids_in |-> blocked_pids_in_, cgroup |-> blocked_cgroup_,
        outb |-> is_blocked_outbound_, inb |-> is_blocked_inbound_]

\* bool isBlocked() const
isBlocked == is_blocked_outbound_ \/ is_blocked_inbound_

NoLoc == [proc |-> "", inbound |-> FALSE, pid |-> 0, found |-> FALSE, it |-> {}]

NoCall == [valid |-> FALSE, proc |-> "", inbound |-> FALSE, ok |-> FALSE,
           kind |-> "none", pid |-> 0, cg |-> ""]

ZeroIssued == [outp |-> [p \in Pids |-> 0], inp |-> [p \in Pids |-> 0],
               cgout |-> 0, cgin |-> 0]

\* History: calls = public calls made by the client; callAdds = add-rule
\* commands issued by the running blockLinux; applied = successful applies
\* since the last completed unblockLinux; undoAttempts = delete commands
\* issued by the running/last unblock(); toolFail = some delete command
\* failed although its rule was installed; pre / upre = the object at the
\* entry of the last blockLinux / unblock; last, prev = the last two
\* completed blockLinux calls since the last unblock(); issued = delete
\* commands issued per recorded entry since the entry was recorded;
\* nAtUnblock = applied at the entry of the last unblock(); undone = the
\* entries the running/last unblock() issued a delete command for;
\* callFail = a delete command of the running/last unblock() failed;
\* afterFail = it issued a delete command after one had failed;
\* justRevoked = the last library call that completed was an unblock()
\* that went through unblockLinux; preOut / preIn = the two chains at the
\* entry of the last blockLinux.
EmptyObj == [name |-> "", pids_out |-> {}, pids_in |-> {}, cgroup |-> "",
             outb |-> FALSE, inb |-> FALSE]

NoneUndone == [outp |-> {}, inp |-> {}, cgout |-> FALSE, cgin |-> FALSE]

InitHist == [calls |-> 0, callAdds |-> 0, applied |-> 0, undoAttempts |-> 0,
             toolFail |-> FALSE, pre |-> EmptyObj, upre |-> EmptyObj, last |-> NoCall,
             prev |-> NoCall, issued |-> ZeroIssued, nAtUnblock |-> 0,
             undone |-> NoneUndone, callFail |-> FALSE, afterFail |-> FALSE,
             justRevoked |-> FALSE, preOut |-> EmptyChain, preIn |-> EmptyChain]

\* return <val>; : back to the caller's continuation.
Return(val) ==
    /\ pc' = Head(stack)
    /\ stack' = Tail(stack)
    /\ retval' = val

\* ------------------------------------------------------ blockLinux
\* Entry of blockDirection(proc_name, inbound) -> blockLinux(proc_name, inbound).
EnterBlock(proc, inbound) ==
    /\ loc' = [NoLoc EXCEPT !.proc = proc, !.inbound = inbound]
    /\ pc' = "bl_pgrep"

\* History at the entry of blockLinux (what is kept about the last
\* unblock() is forgotten).
HistEnterBlock(hh) ==
    [hh EXCEPT !.callAdds = 0, !.pre = Obj, !.justRevoked = FALSE,
               !.preOut = NETCTRL_OUT, !.preIn = NETCTRL_IN,
               !.upre = EmptyObj, !.undoAttempts = 0, !.nAtUnblock = 0,
               !.undone = NoneUndone, !.callFail = FALSE, !.afterFail = FALSE]

\* History at the return of blockLinux.
HistBlockReturn(hh, found, kind) ==
    [hh EXCEPT !.prev = hh.last,
               !.last = [valid |-> TRUE, proc |-> loc.proc, inbound |-> loc.inbound,
                         ok |-> found, kind |-> kind, pid |-> loc.pid,
                         cg |-> blocked_cgroup_],
               !.applied = IF found THEN @ + 1 ELSE @]

\* popen("pgrep -x '<proc>'"), the first PID, and the flatpak check that
\* runs only while neither a cgroup nor a process name is cached.
blockLinux_pgrep ==
    /\ pc = "bl_pgrep"
    /\ \E pid \in {0} \cup PidsOf(loc.proc) :
         IF pid = 0
         THEN \* no pipe, no line, or atoi(buf) <= 0: found stays false
              /\ Return(FALSE)
              /\ h' = HistBlockReturn(h, FALSE, "none")
              /\ ev' = "ret_block"
              /\ loc' = [NoLoc EXCEPT !.proc = loc.proc]
              /\ UNCHANGED objVars
         ELSE /\ IF blocked_cgroup_ = "" /\ process_name_ = ""
                 THEN /\ \E cg \in {"", CgroupPathOf(pid)} : blocked_cgroup_' = cg
                      /\ process_name_' = loc.proc
                 ELSE UNCHANGED <<blocked_cgroup_, process_name_>>
              /\ loc' = [loc EXCEPT !.pid = pid]
              /\ pc' = "bl_add"
              /\ ev' = "step"
              /\ UNCHANGED <<stack, retval, h, blocked_pids_out_, blocked_pids_in_,
                             is_blocked_outbound_, is_blocked_inbound_>>
    /\ UNCHANGED <<setup, setupCmds, chainVars, out, restVars>>

\* system("iptables -w -A <chain> ... -j DROP"): by cgroup when one is
\* cached, else by PID.  ok is the command's exit status being 0.
blockLinux_add ==
    /\ pc = "bl_add"
    /\ \E ok \in BOOLEAN :
         /\ IF blocked_cgroup_ # ""
            THEN /\ NETCTRL_OUT' = IF ok /\ ~loc.inbound
                                   THEN AppendCgroup(NETCTRL_OUT, blocked_cgroup_)
                                   ELSE NETCTRL_OUT
                 /\ NETCTRL_IN' = IF ok /\ loc.inbound
                                  THEN AppendCgroup(NETCTRL_IN, blocked_cgroup_)
                                  ELSE NETCTRL_IN
                 /\ loc' = [loc EXCEPT !.found = ok]
                 /\ pc' = "bl_flag"
            ELSE /\ NETCTRL_OUT' = IF ok /\ ~loc.inbound
                                   THEN AppendOwner(NETCTRL_OUT, loc.pid)
                                   ELSE NETCTRL_OUT
                 /\ NETCTRL_IN' = IF ok /\ loc.inbound
                                  THEN AppendOwner(NETCTRL_IN, loc.pid)
                                  ELSE NETCTRL_IN
                 /\ loc' = loc
                 /\ pc' = IF ok THEN "bl_insert" ELSE "bl_flag"
    /\ h' = [h EXCEPT !.callAdds = @ + 1]
    /\ ev' = "step"
    /\ UNCHANGED <<objVars, setup, setupCmds, stack, retval, out, restVars>>

\* blocked_pids_in_.insert(pid) / blocked_pids_out_.insert(pid); found = true
blockLinux_insert ==
    /\ pc = "bl_insert"
    /\ IF loc.inbound
       THEN /\ blocked_pids_in_' = blocked_pids_in_ \cup {loc.pid}
            /\ UNCHANGED blocked_pids_out_
       ELSE /\ blocked_pids_out_' = blocked_pids_out_ \cup {loc.pid}
            /\ UNCHANGED blocked_pids_in_
    /\ loc' = [loc EXCEPT !.found = TRUE]
    /\ pc' = "bl_flag"
    /\ ev' = "step"
    /\ UNCHANGED <<process_name_, blocked_cgroup_, is_blocked_outbound_,
                   is_blocked_inbound_, setup, setupCmds, chainVars, stack,
                   retval, out, restVars, h>>

\* Mutant of blockLinux_flag: a successful apply marks both directions.
blockLinux_flag_BothFlags ==
    /\ pc = "bl_flag"
    /\ is_blocked_inbound_' = IF loc.found THEN TRUE ELSE is_blocked_inbound_
    /\ is_blocked_outbound_' = IF loc.found THEN TRUE ELSE is_blocked_outbound_
    /\ Return(loc.found)
    /\ h' = HistBlockReturn(h, loc.found,
                            IF blocked_cgroup_ # "" THEN "cgroup" ELSE "owner")
    /\ ev' = "ret_block"
    /\ loc' = [NoLoc EXCEPT !.proc = loc.proc]
    /\ UNCHANGED <<process_name_, blocked_pids_out_, blocked_pids_in_,
                   blocked_cgroup_, setup, setupCmds, chainVars, out, restVars>>

\* pclose; if (found) set the direction flag; return found
blockLinux_flag ==
    /\ pc = "bl_flag"
    /\ is_blocked_inbound_' = IF loc.found /\ loc.inbound THEN TRUE
                              ELSE is_blocked_inbound_
    /\ is_blocked_outbound_' = IF loc.found /\ ~loc.inbound THEN TRUE
                               ELSE is_blocked_outbound_
    /\ Return(loc.found)
    /\ h' = HistBlockReturn(h, loc.found,
                            IF blocked_cgroup_ # "" THEN "cgroup" ELSE "owner")
    /\ ev' = "ret_block"
    /\ loc' = [NoLoc EXCEPT !.proc = loc.proc]
    /\ UNCHANGED <<process_name_, blocked_pids_out_, blocked_pids_in_,
                   blocked_cgroup_, setup, setupCmds, chainVars, out, restVars>>

\* The whole of blockLinux(proc, inbound) as a function of the state it
\* starts in (s.obj the object, s.o / s.i the two chains) and of what the
\* system answers: pid = the first PID pgrep prints (0 = none), cg = the
\* flatpak cgroup read from /proc/<pid>/cgroup ("" = none), ok = the exit
\* status of the add-rule command being 0.
blockLinux(s, proc, inbound, pid, cg, ok) ==
    IF pid = 0 THEN s
    ELSE LET detect == s.obj.cgroup = "" /\ s.obj.name = ""
             cached == IF detect
                       THEN [s.obj EXCEPT !.cgroup = cg, !.name = proc]
                       ELSE s.obj
             bycg   == cached.cgroup # ""
             add(c) == IF ~ok THEN c
                       ELSE IF bycg THEN AppendCgroup(c, cached.cgroup)
                       ELSE AppendOwner(c, pid)
             listed == IF ok /\ ~bycg
                       THEN IF inbound
                            THEN [cached EXCEPT !.pids_in = @ \cup {pid}]
                            ELSE [cached EXCEPT !.pids_out = @ \cup {pid}]
                       ELSE cached
             flagged == IF ok
                        THEN IF inbound THEN [listed EXCEPT !.inb = TRUE]
                             ELSE [listed EXCEPT !.outb = TRUE]
                        ELSE listed
         IN  [obj |-> flagged,
              o   |-> IF inbound THEN s.o ELSE add(s.o),
              i   |-> IF inbound THEN add(s.i) ELSE s.i]

\* ------------------------------------------------------ unblock
\* Mutant of NothingBlocked: the early return of unblock() is missing.
NothingBlocked_NoEarlyReturn == FALSE

\* if (!is_blocked_outbound_ && !is_blocked_inbound_) return true;
NothingBlocked == ~is_blocked_outbound_ /\ ~is_blocked_inbound_

\* A delete command on a rule that is installed may still fail (ok = FALSE);
\* on a rule that is not installed it fails whatever ok is.
HistDelete(hh, installed, ok) ==
    [hh EXCEPT !.undoAttempts = @ + 1,
               !.toolFail = @ \/ (installed /\ ~ok),
               !.callFail = @ \/ ~(installed /\ ok),
               !.afterFail = @ \/ hh.callFail]

\* bool unblock(): the early return, else into unblockLinux
unblock ==
    /\ pc = "unblock"
    /\ IF NothingBlocked
       THEN /\ Return(TRUE)
            /\ ev' = "ret_unblock_noop"
            /\ loc' = NoLoc
       ELSE /\ pc' = IF blocked_cgroup_ # "" THEN "ul_cg_out" ELSE "ul_pids_out"
            /\ loc' = [NoLoc EXCEPT !.it = blocked_pids_out_]
            /\ ev' = "step"
            /\ UNCHANGED <<stack, retval>>
    /\ h' = [h EXCEPT !.undoAttempts = 0, !.upre = Obj, !.nAtUnblock = h.applied,
                      !.last = NoCall, !.prev = NoCall, !.undone = NoneUndone,
                      !.callFail = FALSE, !.afterFail = FALSE,
                      !.callAdds = 0, !.pre = EmptyObj,
                      !.preOut = EmptyChain, !.preIn = EmptyChain]
    /\ UNCHANGED <<objVars, setup, setupCmds, chainVars, out, restVars>>

\* system("iptables -w -D NETCTRL_OUT -m cgroup --path <cg> -j DROP")
unblockLinux_cgroup_out ==
    /\ pc = "ul_cg_out"
    /\ \E ok \in BOOLEAN :
         /\ NETCTRL_OUT' = DeleteCgroup(NETCTRL_OUT, blocked_cgroup_, ok)
         /\ h' = [HistDelete(h, NETCTRL_OUT.cgroup[blocked_cgroup_] > 0, ok)
                    EXCEPT !.issued.cgout = @ + 1, !.undone.cgout = TRUE]
    /\ pc' = "ul_cg_in"
    /\ ev' = "step"
    /\ UNCHANGED <<objVars, setup, setupCmds, NETCTRL_IN, stack, loc, retval, out,
                   restVars>>

\* system("iptables -w -D NETCTRL_IN -m cgroup --path <cg> -j DROP")
unblockLinux_cgroup_in ==
    /\ pc = "ul_cg_in"
    /\ \E ok \in BOOLEAN :
         /\ NETCTRL_IN' = DeleteCgroup(NETCTRL_IN, blocked_cgroup_, ok)
         /\ h' = [HistDelete(h, NETCTRL_IN.cgroup[blocked_cgroup_] > 0, ok)
                    EXCEPT !.issued.cgin = @ + 1, !.undone.cgin = TRUE]
    /\ pc' = "ul_cg_clear"
    /\ ev' = "step"
    /\ UNCHANGED <<objVars, setup, setupCmds, NETCTRL_OUT, stack, loc, retval, out,
                   restVars>>

\* blocked_cgroup_.clear();
unblockLinux_cgroup_clear ==
    /\ pc = "ul_cg_clear"
    /\ blocked_cgroup_' = ""
    /\ h' = [h EXCEPT !.issued.cgout = 0, !.issued.cgin = 0]
    /\ pc' = "ul_pids_out"
    /\ ev' = "step"
    /\ UNCHANGED <<process_name_, blocked_pids_out_, blocked_pids_in_,
                   is_blocked_outbound_, is_blocked_inbound_, setup, setupCmds,
                   chainVars, stack, loc, retval, out, restVars>>

\* std::set<int> iterates in ascending order.
NextPid(S) == CHOOSE p \in S : \A q \in S : p <= q

\* Mutant of unblockLinux_pids_out: a failed delete command ends the revoke
\* with false (if (system(...) != 0) return false;).
unblockLinux_pids_out_StopOnFailure ==
    /\ pc = "ul_pids_out"
    /\ IF loc.it = {}
       THEN /\ pc' = "ul_pids_in"
            /\ loc' = [loc EXCEPT !.it = blocked_pids_in_]
            /\ UNCHANGED <<NETCTRL_OUT, h, stack, retval>>
       ELSE \E ok \in BOOLEAN :
              /\ NETCTRL_OUT' = DeleteOwner(NETCTRL_OUT, NextPid(loc.it), ok)
              /\ h' = [HistDelete(h, NETCTRL_OUT.owner[NextPid(loc.it)] > 0, ok)
                         EXCEPT !.issued.outp[NextPid(loc.it)] = @ + 1,
                                !.undone.outp = @ \cup {NextPid(loc.it)}]
              /\ loc' = [loc EXCEPT !.it = @ \ {NextPid(loc.it)}]
              /\ IF ok /\ NETCTRL_OUT.owner[NextPid(loc.it)] > 0
                 THEN UNCHANGED <<pc, stack, retval>>
                 ELSE Return(FALSE)
    /\ ev' = IF pc' \in {"ul_pids_out", "ul_pids_in"} THEN "step" ELSE "ret_unblock"
    /\ UNCHANGED <<objVars, setup, setupCmds, NETCTRL_IN, out, restVars>>

\* for (int pid : blocked_pids_out_) system("iptables -w -D NETCTRL_OUT ...")
unblockLinux_pids_out ==
    /\ pc = "ul_pids_out"
    /\ IF loc.it = {}
       THEN /\ pc' = "ul_pids_in"
            /\ loc' = [loc EXCEPT !.it = blocked_pids_in_]
            /\ UNCHANGED <<NETCTRL_OUT, h>>
       ELSE /\ \E ok \in BOOLEAN :
                 /\ NETCTRL_OUT' = DeleteOwner(NETCTRL_OUT, NextPid(loc.it), ok)
                 /\ h' = [HistDelete(h, NETCTRL_OUT.owner[NextPid(loc.it)] > 0, ok)
                            EXCEPT !.issued.outp[NextPid(loc.it)] = @ + 1,
                                   !.undone.outp = @ \cup {NextPid(loc.it)}]
            /\ loc' = [loc EXCEPT !.it = @ \ {NextPid(loc.it)}]
            /\ pc' = pc
    /\ ev' = "step"
    /\ UNCHANGED <<objVars, setup, setupCmds, NETCTRL_IN, stack, retval, out, restVars>>

\* for (int pid : blocked_pids_in_) system("iptables -w -D NETCTRL_IN ...")
unblockLinux_pids_in ==
    /\ pc = "ul_pids_in"
    /\ IF loc.it = {}
       THEN /\ pc' = "ul_clear"
            /\ loc' = loc
            /\ UNCHANGED <<NETCTRL_IN, h>>
       ELSE /\ \E ok \in BOOLEAN :
                 /\ NETCTRL_IN' = DeleteOwner(NETCTRL_IN, NextPid(loc.it), ok)
                 /\ h' = [HistDelete(h, NETCTRL_IN.owner[NextPid(loc.it)] > 0, ok)
                            EXCEPT !.issued.inp[NextPid(loc.it)] = @ + 1,
                                   !.undone.inp = @ \cup {NextPid(loc.it)}]
            /\ loc' = [loc EXCEPT !.it = @ \ {NextPid(loc.it)}]
            /\ pc' = pc
    /\ ev' = "step"
    /\ UNCHANGED <<objVars, setup, setupCmds, NETCTRL_OUT, stack, retval, out, restVars>>

\* blocked_pids_out_.clear(); blocked_pids_in_.clear(); both flags false;
\* process_name_.clear(); return true;
unblockLinux_clear ==
    /\ pc = "ul_clear"
    /\ blocked_pids_out_' = {}
    /\ blocked_pids_in_' = {}
    /\ is_blocked_outbound_' = FALSE
    /\ is_blocked_inbound_' = FALSE
    /\ process_name_' = ""
    /\ Return(TRUE)
    /\ loc' = NoLoc
    /\ h' = [h EXCEPT !.issued.outp = ZeroIssued.outp, !.issued.inp = ZeroIssued.inp,
                      !.applied = 0, !.justRevoked = TRUE]
    /\ ev' = "ret_unblock"
    /\ UNCHANGED <<blocked_cgroup_, setup, setupCmds, chainVars, out, restVars>>

\* ------------------------------------------------------ block
\* Mutant of block_inbound: block() written as
\* `return blockOutbound(p) && blockInbound(p);`, which skips the inbound
\* apply when the outbound one failed.
block_inbound_ShortCircuit ==
    /\ pc = "block_in"
    /\ IF retval
       THEN /\ out' = retval
            /\ EnterBlock(loc.proc, TRUE)
            /\ stack' = <<"block_ret">> \o stack
            /\ h' = HistEnterBlock(h)
            /\ ev' = "call"
            /\ UNCHANGED retval
       ELSE /\ Return(FALSE)
            /\ out' = FALSE
            /\ loc' = NoLoc
            /\ ev' = "ret_block_both"
            /\ UNCHANGED h
    /\ UNCHANGED <<objVars, setup, setupCmds, chainVars, restVars>>

\* bool in = blockInbound(process_name);  (after out = blockOutbound(...))
block_inbound ==
    /\ pc = "block_in"
    /\ out' = retval
    /\ EnterBlock(loc.proc, TRUE)
    /\ stack' = <<"block_ret">> \o stack
    /\ h' = HistEnterBlock(h)
    /\ ev' = "call"
    /\ UNCHANGED <<objVars, setup, setupCmds, chainVars, retval, restVars>>

\* return out && in;
block_return ==
    /\ pc = "block_ret"
    /\ Return(out /\ retval)
    /\ out' = FALSE
    /\ loc' = NoLoc
    /\ ev' = "ret_block_both"
    /\ UNCHANGED <<objVars, setup, setupCmds, chainVars, restVars, h>>

\* The steps of the library, whoever called it.
LibraryStep ==
    \/ blockLinux_pgrep
    \/ blockLinux_add
    \/ blockLinux_insert
    \/ blockLinux_flag
    \/ unblock
    \/ unblockLinux_cgroup_out
    \/ unblockLinux_cgroup_in
    \/ unblockLinux_cgroup_clear
    \/ unblockLinux_pids_out
    \/ unblockLinux_pids_in
    \/ unblockLinux_clear
    \/ block_inbound
    \/ block_return

\* ====================================================== lag controller
\* Backgrounded external commands ("... &"): they run after system() has
\* returned, in any order.
LagCmds == {"tc_del", "tc_add", "ipt_del_out", "ipt_del_in", "ipt_ins_out",
            "ipt_ins_in"}

\* Interfaces findInterface() can settle on ("" = none found).
Ifaces == {"", "eth0"}

\* Arguments a client passes to lag(lag_ms, drop_percent).
LagMsValues == {0, 100}
DropValues == {0, 50}

NoPending == [c \in LagCmds |-> 0]

\* system("<cmd> &") for each command of S
Launch(pend, S) == [c \in LagCmds |-> pend[c] + IF c \in S THEN 1 ELSE 0]

PendingCount == SumOver(pending, LagCmds)

\* Mutant of DisableLaunch: without an interface disableLinux() launches
\* nothing (the iptables -D line moved inside the if).
DisableLaunch_NeedsIface(iface) ==
    IF iface # "" THEN {"tc_del", "ipt_del_out", "ipt_del_in"} ELSE {}

\* The delete commands disableLinux() backgrounds: tc qdisc del only when an
\* interface is known, the two iptables -D always.
DisableLaunch(iface) ==
    IF iface # "" THEN {"tc_del", "ipt_del_out", "ipt_del_in"}
    ELSE {"ipt_del_out", "ipt_del_in"}

\* History of disableLinux(): what was recorded, what it launched.
LagHistDisable(hh) ==
    [hh EXCEPT !.wasKind = hh.kind, !.kind = "none",
               !.launched = DisableLaunch(default_iface_),
               !.lastLag = 0, !.lastDrop = 0]

\* bool block() -> blockLinux(): disableLinux(); two backgrounded
\* iptables -I ... 1 -j DROP; is_active_ = true; lag 0; drop 100; return true
lag_block ==
    /\ pc = "lag_client"
    /\ lh.calls < MaxLagCalls
    /\ PendingCount + 5 <= MaxPending
    /\ pending' = Launch(Launch(pending, DisableLaunch(default_iface_)),
                         {"ipt_ins_out", "ipt_ins_in"})
    /\ is_active_' = TRUE
    /\ current_lag_ms_' = 0
    /\ current_drop_percent_' = 100
    /\ retval' = TRUE
    /\ lh' = [LagHistDisable(lh) EXCEPT !.calls = @ + 1, !.kind = "block",
                                        !.lastLag = 0, !.lastDrop = 100]
    /\ ev' = "ret_lag_block"
    /\ UNCHANGED <<pbVars_but_ctl, pc, default_iface_, OUTPUT, INPUT, qdisc>>

\* bool lag(lag_ms, drop_percent) -> applyLinux(): disableLinux(); return
\* false without an interface; else backgrounded tc qdisc add ... netem;
\* is_active_ = true; the two parameters recorded; return true
lag_lag ==
    /\ pc = "lag_client"
    /\ lh.calls < MaxLagCalls
    /\ PendingCount + 4 <= MaxPending
    /\ \E ms \in LagMsValues, pct \in DropValues :
         IF default_iface_ = ""
         THEN /\ pending' = Launch(pending, DisableLaunch(default_iface_))
              /\ is_active_' = FALSE
              /\ current_lag_ms_' = 0
              /\ current_drop_percent_' = 0
              /\ retval' = FALSE
              /\ lh' = [LagHistDisable(lh) EXCEPT !.calls = @ + 1]
         ELSE /\ pending' = Launch(Launch(pending, DisableLaunch(default_iface_)),
                                   {"tc_add"})
              /\ is_active_' = TRUE
              /\ current_lag_ms_' = ms
              /\ current_drop_percent_' = pct
              /\ retval' = TRUE
              /\ lh' = [LagHistDisable(lh) EXCEPT !.calls = @ + 1, !.kind = "netem",
                                                  !.lastLag = ms, !.lastDrop = pct]
    /\ ev' = "ret_lag"
    /\ UNCHANGED <<pbVars_but_ctl, pc, default_iface_, OUTPUT, INPUT, qdisc>>

\* Mutant of lag_disable: the two parameters are not reset.
lag_disable_KeepsParameters ==
    /\ pc = "lag_client"
    /\ lh.calls < MaxLagCalls
    /\ PendingCount + 3 <= MaxPending
    /\ pending' = Launch(pending, DisableLaunch(default_iface_))
    /\ is_active_' = FALSE
    /\ UNCHANGED <<current_lag_ms_, current_drop_percent_>>
    /\ retval' = TRUE
    /\ lh' = [LagHistDisable(lh) EXCEPT !.calls = @ + 1]
    /\ ev' = "ret_lag_disable"
    /\ UNCHANGED <<pbVars_but_ctl, pc, default_iface_, OUTPUT, INPUT, qdisc>>

\* bool disable() -> disableLinux(): the delete commands backgrounded;
\* is_active_ = false; lag 0; drop 0; return true
lag_disable ==
    /\ pc = "lag_client"
    /\ lh.calls < MaxLagCalls
    /\ PendingCount + 3 <= MaxPending
    /\ pending' = Launch(pending, DisableLaunch(default_iface_))
    /\ is_active_' = FALSE
    /\ current_lag_ms_' = 0
    /\ current_drop_percent_' = 0
    /\ retval' = TRUE
    /\ lh' = [LagHistDisable(lh) EXCEPT !.calls = @ + 1]
    /\ ev' = "ret_lag_disable"
    /\ UNCHANGED <<pbVars_but_ctl, pc, default_iface_, OUTPUT, INPUT, qdisc>>

\* ~NetCtrl() { disable(); }
lag_destroy ==
    /\ pc = "lag_client"
    /\ PendingCount + 3 <= MaxPending
    /\ pending' = Launch(pending, DisableLaunch(default_iface_))
    /\ is_active_' = FALSE
    /\ current_lag_ms_' = 0
    /\ current_drop_percent_' = 0
    /\ retval' = TRUE
    /\ lh' = LagHistDisable(lh)
    /\ pc' = "lag_destroyed"
    /\ ev' = "ret_lag_disable"
    /\ UNCHANGED <<pbVars_but_ctl, default_iface_, OUTPUT, INPUT, qdisc>>

\* iptables -w -I <chain> 1 -j DROP: one more DROP-all rule of ours on top
InsertDrop(chain, ok) == IF ok THEN [chain EXCEPT !.ours = @ + 1] ELSE chain

\* iptables -w -D <chain> -j DROP: deletes the first DROP-all rule of the
\* chain: ours (inserted at position 1) before anyone else's
DeleteDrop(chain, ok) ==
    IF ~ok THEN chain
    ELSE IF chain.ours > 0 THEN [chain EXCEPT !.ours = @ - 1]
    ELSE IF chain.foreign > 0 THEN [chain EXCEPT !.foreign = @ - 1]
    ELSE chain

\* tc qdisc add dev <iface> root netem ...: fails when a root qdisc is set
AddQdisc(q, ok) == IF ok /\ q = "none" THEN "netem" ELSE q

\* tc qdisc del dev <iface> root: removes the root qdisc, whoever set it
DelQdisc(q, ok) == IF ok THEN "none" ELSE q

\* Positions of a process that holds (or held) a lag controller; the
\* backgrounded commands outlive the process.
LagPcs == {"lag_client", "lag_destroyed", "lm_goodbye", "lm_exit0", "exited"}

\* One backgrounded command runs to completion (ok: it did not fail).
background ==
    /\ pc \in LagPcs
    /\ \E c \in LagCmds, ok \in BOOLEAN :
         /\ pending[c] > 0
         /\ pending' = [pending EXCEPT ![c] = @ - 1]
         /\ OUTPUT' = IF c = "ipt_ins_out" THEN InsertDrop(OUTPUT, ok)
                      ELSE IF c = "ipt_del_out" THEN DeleteDrop(OUTPUT, ok)
                      ELSE OUTPUT
         /\ INPUT' = IF c = "ipt_ins_in" THEN InsertDrop(INPUT, ok)
                     ELSE IF c = "ipt_del_in" THEN DeleteDrop(INPUT, ok)
                     ELSE INPUT
         /\ qdisc' = IF c = "tc_add" THEN AddQdisc(qdisc, ok)
                     ELSE IF c = "tc_del" THEN DelQdisc(qdisc, ok)
                     ELSE qdisc
         /\ lh' = [lh EXCEPT !.cmdFail = @ \/ ~ok]
    /\ ev' = "bg"
    /\ UNCHANGED <<pbVars_but_ctl, pc, retval, lagObjVars, default_iface_>>

LagStep ==
    \/ lag_block
    \/ lag_lag
    \/ lag_disable
    \/ lag_destroy
    \/ background

\* Foreign DROP-all rules per chain (with a foreign root qdisc) that may
\* exist before the controller does anything.
ForeignCounts == {0, 1}

\* History: calls = public calls made by the client; kind = the restriction
\* the last apply recorded since the last disableLinux(); wasKind = kind when
\* the last disableLinux() started; launched = the commands it backgrounded;
\* cmdFail = some backgrounded command exited with a failure of its own
\* (ok = FALSE); lastLag / lastDrop = the parameters of the last successful
\* apply since the last disableLinux() (block() is lag 0, drop 100).
InitLagHist == [calls |-> 0, kind |-> "none", wasKind |-> "none", launched |-> {},
                cmdFail |-> FALSE, lastLag |-> 0, lastDrop |-> 0]

\* The lag controller after NetCtrl() { findInterface(); }
InitLagObject ==
    /\ is_active_ = FALSE
    /\ current_lag_ms_ = 0
    /\ current_drop_percent_ = 0
    /\ pending = NoPending
    /\ lh = InitLagHist

InitLag ==
    /\ InitLagObject
    /\ default_iface_ \in Ifaces
    /\ \E f \in ForeignCounts :
         /\ OUTPUT = [ours |-> 0, foreign |-> f]
         /\ INPUT = [ours |-> 0, foreign |-> f]
         /\ qdisc = IF f > 0 THEN "foreign" ELSE "none"

\* No lag controller in the process.
LagAbsent ==
    /\ InitLagObject
    /\ default_iface_ = ""
    /\ OUTPUT = [ours |-> 0, foreign |-> 0]
    /\ INPUT = [ours |-> 0, foreign |-> 0]
    /\ qdisc = "none"

\* ------------------------------------------------------ a client of the API
\* One controller, constructed; its public methods called in any order with
\* any process name; then destroyed.

\* NetCtrl(rule_name): init() issues the chain setup once per process.
InitObject ==
    /\ process_name_ = ""
    /\ blocked_pids_out_ = {}
    /\ blocked_pids_in_ = {}
    /\ blocked_cgroup_ = ""
    /\ is_blocked_outbound_ = FALSE
    /\ is_blocked_inbound_ = FALSE

\* No blocker in the process.
BlockerAbsent ==
    /\ InitObject
    /\ setup = FALSE
    /\ setupCmds = 0
    /\ NETCTRL_OUT = EmptyChain
    /\ NETCTRL_IN = EmptyChain
    /\ stack = <<>>
    /\ loc = NoLoc
    /\ retval = FALSE
    /\ out = FALSE
    /\ g_ctrl = FALSE
    /\ exit_code = -1
    /\ in_handler = FALSE
    /\ target = ""
    /\ ctor = NoCtor
    /\ h = InitHist
    /\ ev = "init"

InitBlocker ==
    /\ InitObject
    /\ LagAbsent
    /\ setup = TRUE
    /\ setupCmds = 1
    /\ NETCTRL_OUT = EmptyChain
    /\ NETCTRL_IN = EmptyChain
    /\ pc = "client"
    /\ stack = <<>>
    /\ loc = NoLoc
    /\ retval = FALSE
    /\ out = FALSE
    /\ g_ctrl = FALSE
    /\ exit_code = -1
    /\ in_handler = FALSE
    /\ target = ""
    /\ ctor = NoCtor
    /\ h = InitHist
    /\ ev = "init"

\* net.blockOutbound(p)
CallBlockOutbound ==
    /\ pc = "client"
    /\ h.calls < MaxCalls
    /\ \E p \in ProcNames : EnterBlock(p, FALSE)
    /\ stack' = <<"client">> \o stack
    /\ h' = [HistEnterBlock(h) EXCEPT !.calls = @ + 1]
    /\ ev' = "call"
    /\ UNCHANGED <<objVars, setup, setupCmds, chainVars, retval, out, restVars>>

\* net.blockInbound(p)
CallBlockInbound ==
    /\ pc = "client"
    /\ h.calls < MaxCalls
    /\ \E p \in ProcNames : EnterBlock(p, TRUE)
    /\ stack' = <<"client">> \o stack
    /\ h' = [HistEnterBlock(h) EXCEPT !.calls = @ + 1]
    /\ ev' = "call"
    /\ UNCHANGED <<objVars, setup, setupCmds, chainVars, retval, out, restVars>>

\* net.block(p): bool out = blockOutbound(process_name); ...
CallBlock ==
    /\ pc = "client"
    /\ h.calls < MaxCalls
    /\ \E p \in ProcNames : EnterBlock(p, FALSE)
    /\ stack' = <<"block_in", "client">> \o stack
    /\ h' = [HistEnterBlock(h) EXCEPT !.calls = @ + 1]
    /\ ev' = "call"
    /\ UNCHANGED <<objVars, setup, setupCmds, chainVars, retval, out, restVars>>

\* net.unblock()
CallUnblock ==
    /\ pc = "client"
    /\ h.calls < MaxCalls
    /\ pc' = "unblock"
    /\ stack' = <<"client">> \o stack
    /\ h' = [h EXCEPT !.calls = @ + 1]
    /\ ev' = "call"
    /\ UNCHANGED <<objVars, setup, setupCmds, chainVars, loc, retval, out, restVars>>

\* ~NetCtrl() { unblock(); }
Destroy ==
    /\ pc = "client"
    /\ pc' = "unblock"
    /\ stack' = <<"destroyed">> \o stack
    /\ ev' = "call_dtor"
    /\ UNCHANGED <<objVars, setup, setupCmds, chainVars, loc, retval, out, restVars, h>>

\* A client of the lag controller: one controller, constructed.
InitLagClient ==
    /\ BlockerAbsent
    /\ InitLag
    /\ pc = "lag_client"

\* The process holds a blocker or a lag controller.
Init == InitBlocker \/ InitLagClient

Next ==
    \/ CallBlockOutbound
    \/ CallBlockInbound
    \/ CallBlock
    \/ CallUnblock
    \/ Destroy
    \/ LibraryStep
    \/ LagStep

vars == <<pbVars, lagVars>>

Spec == Init /\ [][Next]_vars

\* ------------------------------------------------------ constructors
\* Several threads of one process construct NetCtrl objects; nothing else
\* is called.  `setup` is the function-local static of init().
InitThreads ==
    /\ BlockerAbsent
    /\ LagAbsent
    /\ pc = "threads"

\* What init() neither reads nor writes.
notInit == <<objVars, chainVars, pc, stack, loc, retval, out, g_ctrl,
             exit_code, in_handler, target, h, ev, lagVars>>

\* NetCtrl(rule_name) : rule_name_(rule_name) { init(); }
construct(t) ==
    /\ pc = "threads"
    /\ ctor.pc[t] = "idle"
    /\ ctor.made[t] < MaxObjects
    /\ ctor' = [ctor EXCEPT !.pc[t] = "init"]
    /\ UNCHANGED <<setup, setupCmds, notInit>>

\* Mutant of init_exchange: the flag is read with load() and never stored.
init_exchange_LoadOnly(t) ==
    /\ pc = "threads"
    /\ ctor.pc[t] = "init"
    /\ ctor' = [ctor EXCEPT !.pc[t] = "init_if", !.old[t] = setup]
    /\ setup' = setup
    /\ UNCHANGED <<setupCmds, notInit>>

\* setup.exchange(true): one atomic read-and-set of the flag
init_exchange(t) ==
    /\ pc = "threads"
    /\ ctor.pc[t] = "init"
    /\ ctor' = [ctor EXCEPT !.pc[t] = "init_if", !.old[t] = setup]
    /\ setup' = TRUE
    /\ UNCHANGED <<setupCmds, notInit>>

\* if (!<exchanged value>) system("(iptables -w -N NETCTRL_OUT ...) &");
\* the constructor returns
init_system(t) ==
    /\ pc = "threads"
    /\ ctor.pc[t] = "init_if"
    /\ setupCmds' = IF ctor.old[t] THEN setupCmds ELSE setupCmds + 1
    /\ ctor' = [ctor EXCEPT !.pc[t] = "idle", !.old[t] = FALSE, !.made[t] = @ + 1]
    /\ UNCHANGED <<setup, notInit>>

NextThreads ==
    \/ \E t \in Threads : construct(t)
    \/ \E t \in Threads : init_exchange(t)
    \/ \E t \in Threads : init_system(t)

SpecThreads == InitThreads /\ [][NextThreads]_vars

\* ------------------------------------------------------ the blocker program
\* main() of the process-blocker program, after signal(SIGINT, cleanup) and
\* signal(SIGTERM, cleanup); target = argv[1] or "sober".
InitCliBlocker ==
    /\ InitObject
    /\ LagAbsent
    /\ setup = FALSE
    /\ setupCmds = 0
    /\ NETCTRL_OUT = EmptyChain
    /\ NETCTRL_IN = EmptyChain
    /\ pc = "m_start"
    /\ stack = <<>>
    /\ loc = NoLoc
    /\ retval = FALSE
    /\ out = FALSE
    /\ g_ctrl = FALSE
    /\ exit_code = -1
    /\ in_handler = FALSE
    /\ target \in ProcNames
    /\ ctor = NoCtor
    /\ h = InitHist
    /\ ev = "init"

\* Mutant of main_start: the controller is constructed before the privilege
\* check, so init() has issued the chain setup when main returns 1.
main_start_ConstructFirst ==
    /\ pc = "m_start"
    /\ setup' = TRUE
    /\ setupCmds' = IF setup THEN setupCmds ELSE setupCmds + 1
    /\ \E admin \in BOOLEAN :
         IF ~admin
         THEN /\ exit_code' = 1
              /\ pc' = "exited"
              /\ ev' = "exit"
              /\ UNCHANGED g_ctrl
         ELSE /\ g_ctrl' = TRUE
              /\ pc' = "m_loop"
              /\ ev' = "step"
              /\ UNCHANGED exit_code
    /\ UNCHANGED <<objVars, chainVars, stack, loc, retval, out, in_handler, target, ctor,
                   lagVars, h>>

\* if (!isAdmin()) return 1;  NetCtrl ctrl("netctrl") -> init();  g_ctrl = &ctrl;
main_start ==
    /\ pc = "m_start"
    /\ \E admin \in BOOLEAN :
         IF ~admin
         THEN /\ exit_code' = 1
              /\ pc' = "exited"
              /\ ev' = "exit"
              /\ UNCHANGED <<setup, setupCmds, g_ctrl>>
         ELSE /\ setup' = TRUE
              /\ setupCmds' = IF setup THEN setupCmds ELSE setupCmds + 1
              /\ g_ctrl' = TRUE
              /\ pc' = "m_loop"
              /\ ev' = "step"
              /\ UNCHANGED exit_code
    /\ UNCHANGED <<objVars, chainVars, stack, loc, retval, out, in_handler, target, ctor,
                   lagVars, h>>

\* "block-out" / "bo"
main_block_out ==
    /\ pc = "m_loop"
    /\ h.calls < MaxCalls
    /\ IF is_blocked_outbound_
       THEN /\ ev' = "already"
            /\ h' = [h EXCEPT !.calls = @ + 1]
            /\ UNCHANGED <<pc, stack, loc>>
       ELSE /\ EnterBlock(target, FALSE)
            /\ stack' = <<"m_loop">> \o stack
            /\ h' = [HistEnterBlock(h) EXCEPT !.calls = @ + 1]
            /\ ev' = "call"
    /\ UNCHANGED <<objVars, setup, setupCmds, chainVars, retval, out, restVars>>

\* "block-in" / "bi"
main_block_in ==
    /\ pc = "m_loop"
    /\ h.calls < MaxCalls
    /\ IF is_blocked_inbound_
       THEN /\ ev' = "already"
            /\ h' = [h EXCEPT !.calls = @ + 1]
            /\ UNCHANGED <<pc, stack, loc>>
       ELSE /\ EnterBlock(target, TRUE)
            /\ stack' = <<"m_loop">> \o stack
            /\ h' = [HistEnterBlock(h) EXCEPT !.calls = @ + 1]
            /\ ev' = "call"
    /\ UNCHANGED <<objVars, setup, setupCmds, chainVars, retval, out, restVars>>

\* "block" / "b"
main_block ==
    /\ pc = "m_loop"
    /\ h.calls < MaxCalls
    /\ IF is_blocked_outbound_ /\ is_blocked_inbound_
       THEN /\ ev' = "already"
            /\ h' = [h EXCEPT !.calls = @ + 1]
            /\ UNCHANGED <<pc, stack, loc>>
       ELSE /\ EnterBlock(target, FALSE)
            /\ stack' = <<"block_in", "m_loop">> \o stack
            /\ h' = [HistEnterBlock(h) EXCEPT !.calls = @ + 1]
            /\ ev' = "call"
    /\ UNCHANGED <<objVars, setup, setupCmds, chainVars, retval, out, restVars>>

\* "unblock" / "u"
main_unblock ==
    /\ pc = "m_loop"
    /\ h.calls < MaxCalls
    /\ IF ~isBlocked
       THEN /\ ev' = "already"
            /\ UNCHANGED <<pc, stack>>
       ELSE /\ pc' = "unblock"
            /\ stack' = <<"m_loop">> \o stack
            /\ ev' = "call"
    /\ h' = [h EXCEPT !.calls = @ + 1]
    /\ UNCHANGED <<objVars, setup, setupCmds, chainVars, loc, retval, out, restVars>>

\* "status", an empty line or an unknown command: prints only
main_other ==
    /\ pc = "m_loop"
    /\ h.calls < MaxCalls
    /\ ev' = "print"
    /\ h' = [h EXCEPT !.calls = @ + 1]
    /\ UNCHANGED <<objVars, setup, setupCmds, chainVars, pc, stack, loc, retval, out,
                   restVars>>

\* "quit" or end of input: break; ctrl.unblock();
main_quit ==
    /\ pc = "m_loop"
    /\ pc' = "unblock"
    /\ stack' = <<"m_goodbye">> \o stack
    /\ ev' = "call_final"
    /\ UNCHANGED <<objVars, setup, setupCmds, chainVars, loc, retval, out, restVars, h>>

\* return 0; : leaving main destroys ctrl, ~NetCtrl() { unblock(); }
main_return ==
    /\ pc = "m_goodbye"
    /\ pc' = "unblock"
    /\ stack' = <<"m_exit0">> \o stack
    /\ ev' = "call_dtor"
    /\ UNCHANGED <<objVars, setup, setupCmds, chainVars, loc, retval, out, restVars, h>>

\* the process ends with the status main returned
main_exit ==
    /\ pc = "m_exit0"
    /\ pc' = "exited"
    /\ exit_code' = 0
    /\ ev' = "exit"
    /\ UNCHANGED <<objVars, setup, setupCmds, chainVars, stack, loc, retval, out,
                   g_ctrl, in_handler, target, ctor, lagVars, h>>

\* Positions of main() of the lag program.
LagProgramPcs == {"lm_start", "lag_client", "lm_goodbye", "lm_exit0"}

\* SIGINT / SIGTERM delivered between two steps of the program:
\* void cleanup(int) { if (g_ctrl) g_ctrl->unblock(); exit(0); }
\* The interrupted frame is never resumed.
cleanup ==
    /\ pc \notin LagProgramPcs \cup {"exited"}
    /\ ~in_handler
    /\ in_handler' = TRUE
    /\ IF g_ctrl
       THEN /\ pc' = "unblock"
            /\ stack' = <<"h_exit">>
       ELSE /\ pc' = "h_exit"
            /\ stack' = <<>>
    /\ ev' = "signal"
    /\ UNCHANGED <<objVars, setup, setupCmds, chainVars, loc, retval, out, g_ctrl,
                   exit_code, target, ctor, lagVars, h>>

\* exit(0) at the end of the handler: no destructor of main's ctrl runs
cleanup_exit ==
    /\ pc = "h_exit"
    /\ pc' = "exited"
    /\ exit_code' = 0
    /\ ev' = "exit"
    /\ UNCHANGED <<objVars, setup, setupCmds, chainVars, stack, loc, retval, out,
                   g_ctrl, in_handler, target, ctor, lagVars, h>>

\* ------------------------------------------------------ the lag program
\* main() of the lag program, after signal(SIGINT, cleanup) and
\* signal(SIGTERM, cleanup); no controller exists yet.  The host has no
\* DROP-all rule and no root qdisc of anyone else's (those are in Spec).
InitCliLag ==
    /\ BlockerAbsent
    /\ InitLagObject
    /\ default_iface_ = ""
    /\ OUTPUT = [ours |-> 0, foreign |-> 0]
    /\ INPUT = [ours |-> 0, foreign |-> 0]
    /\ qdisc = "none"
    /\ pc = "lm_start"

\* disableLinux(): the delete commands backgrounded; is_active_ = false;
\* lag 0; drop 0
disableLinux ==
    /\ PendingCount + 3 <= MaxPending
    /\ pending' = Launch(pending, DisableLaunch(default_iface_))
    /\ is_active_' = FALSE
    /\ current_lag_ms_' = 0
    /\ current_drop_percent_' = 0
    /\ lh' = LagHistDisable(lh)

\* if (!isAdmin()) return 1;  NetCtrl ctrl -> findInterface();  g_ctrl = &ctrl;
lagmain_start ==
    /\ pc = "lm_start"
    /\ \E admin \in BOOLEAN :
         IF ~admin
         THEN /\ exit_code' = 1
              /\ pc' = "exited"
              /\ ev' = "exit"
              /\ UNCHANGED <<g_ctrl, default_iface_>>
         ELSE /\ default_iface_' \in Ifaces
              /\ g_ctrl' = TRUE
              /\ pc' = "lag_client"
              /\ ev' = "step"
              /\ UNCHANGED exit_code
    /\ UNCHANGED <<objVars, setup, setupCmds, chainVars, stack, loc, retval, out,
                   in_handler, target, ctor, h, lagObjVars, OUTPUT, INPUT, qdisc,
                   pending, lh>>

\* "status" / "s", an unknown command, or "lag" with fewer than two words:
\* only output, no call that changes the controller
lagmain_other ==
    /\ pc = "lag_client"
    /\ g_ctrl
    /\ UNCHANGED <<pbVars_but_ctl, pc, retval, lagVars, ev>>

\* "quit" or end of input: break; ctrl.disable();
lagmain_quit ==
    /\ pc = "lag_client"
    /\ g_ctrl
    /\ disableLinux
    /\ retval' = TRUE
    /\ pc' = "lm_goodbye"
    /\ ev' = "ret_lag_disable"
    /\ UNCHANGED <<pbVars_but_ctl, default_iface_, OUTPUT, INPUT, qdisc>>

\* return 0; : leaving main destroys ctrl, ~NetCtrl() { disable(); }
lagmain_return ==
    /\ pc = "lm_goodbye"
    /\ disableLinux
    /\ retval' = TRUE
    /\ pc' = "lm_exit0"
    /\ ev' = "ret_lag_disable"
    /\ UNCHANGED <<pbVars_but_ctl, default_iface_, OUTPUT, INPUT, qdisc>>

\* the process ends with the status main returned
lagmain_exit ==
    /\ pc = "lm_exit0"
    /\ pc' = "exited"
    /\ exit_code' = 0
    /\ ev' = "exit"
    /\ UNCHANGED <<objVars, setup, setupCmds, chainVars, stack, loc, retval, out,
                   g_ctrl, in_handler, target, ctor, lagVars, h>>

\* SIGINT / SIGTERM delivered between two steps of the lag program:
\* void cleanup(int) { if (g_ctrl) g_ctrl->disable(); exit(0); }
lag_cleanup ==
    /\ pc \in LagProgramPcs
    /\ ~in_handler
    /\ in_handler' = TRUE
    /\ IF g_ctrl
       THEN disableLinux
       ELSE UNCHANGED <<lagObjVars, pending, lh>>
    /\ pc' = "exited"
    /\ exit_code' = 0
    /\ ev' = "signal_exit"
    /\ UNCHANGED <<objVars, setup, setupCmds, chainVars, stack, loc, retval, out,
                   g_ctrl, target, ctor, h, default_iface_, OUTPUT, INPUT, qdisc>>

\* The program run is the blocker program or the lag program.
InitCli == InitCliBlocker \/ InitCliLag

NextCli ==
    \/ main_start
    \/ main_block_out
    \/ main_block_in
    \/ main_block
    \/ main_unblock
    \/ main_other
    \/ main_quit
    \/ main_return
    \/ main_exit
    \/ cleanup
    \/ cleanup_exit
    \/ LibraryStep
    \/ lagmain_start
    \/ lag_block
    \/ lag_lag
    \/ lag_disable
    \/ lagmain_other
    \/ lagmain_quit
    \/ lagmain_return
    \/ lagmain_exit
    \/ lag_cleanup
    \/ background

SpecCli == InitCli /\ [][NextCli]_vars

\* ====================================================== claims
\* The rules in `chain` that carry the key the blockLinux call `c` used.
KeyCount(chain, c) ==
    IF c.kind = "cgroup" THEN chain.cgroup[c.cg]
    ELSE IF c.kind = "owner" THEN chain.owner[c.pid]
    ELSE 0

ChainOf(inbound) == IF inbound THEN NETCTRL_IN ELSE NETCTRL_OUT

LedgerEmpty ==
    /\ ~is_blocked_outbound_
    /\ ~is_blocked_inbound_
    /\ blocked_pids_out_ = {}
    /\ blocked_pids_in_ = {}
    /\ blocked_cgroup_ = ""

NoRuleInstalled == RuleCount(NETCTRL_OUT) = 0 /\ RuleCount(NETCTRL_IN) = 0

\* The object and the two chains, as blockLinux(s, ...) takes them.
Ledger == [obj |-> Obj, o |-> NETCTRL_OUT, i |-> NETCTRL_IN]

\* C1: when blockOutbound/blockInbound returns true and the call before it
\* (no unblock in between) was a successful block of the same direction and
\* process, this second call issued no add-rule command and exactly one rule
\* with the pair's key is installed in the direction's chain.
C1_SecondApplyIsAlreadyActive ==
    (/\ ev = "ret_block" /\ retval
     /\ h.prev.valid /\ h.prev.ok
     /\ h.prev.proc = h.last.proc
     /\ h.prev.inbound = h.last.inbound)
    => /\ h.callAdds = 0
       /\ KeyCount(ChainOf(h.prev.inbound), h.prev) = 1

\* C2: when unblock() returns (called by the client or by the destructor)
\* and no delete command failed on an installed rule, no rule is installed
\* in NETCTRL_OUT or NETCTRL_IN.
C2_NoRuleAfterUnblock ==
    (ev \in {"ret_unblock", "ret_unblock_noop"} /\ ~h.toolFail) => NoRuleInstalled

\* C3: when unblock() returns after N successful applies (keyed by PID: no
\* cgroup was cached), it issued exactly N delete commands and the ledger is
\* empty.
C3_ExactlyNUndos ==
    (ev = "ret_unblock" /\ h.upre.cgroup = "")
    => /\ h.undoAttempts = h.nAtUnblock
       /\ LedgerEmpty

\* C4: once the blocker program has exited (return from main or exit(0) in
\* the signal handler) and no delete command failed on an installed rule, no
\* rule is installed.
C4_NoRuleAfterExit ==
    (pc = "exited" /\ ~h.toolFail) => NoRuleInstalled

\* C5: when blockOutbound/blockInbound returns false, every field of the
\* object is as it was when the call started.
C5_FailedApplyInsertsNothing ==
    (ev = "ret_block" /\ ~retval) => Obj = h.pre

\* C6: once the destructor has run, the ledger is empty: both flags false,
\* both PID sets empty, no cgroup cached.
C6_TeardownEmptiesLedger ==
    pc = "destroyed" => LedgerEmpty

\* C7: no delete command is issued twice for one recorded entry (a PID of
\* blocked_pids_out_ / blocked_pids_in_, or the cached cgroup in one chain).
C7_UndoAtMostOnce ==
    /\ h.issued.cgout <= 1
    /\ h.issued.cgin <= 1
    /\ \A p \in Pids : h.issued.outp[p] <= 1 /\ h.issued.inp[p] <= 1

\* C8: when unblock() returns from a call that started with no direction
\* blocked, it issued no delete command and every field of the object is as
\* it was; and when any unblock() returns no direction is blocked, so an
\* unblock() that follows it directly is such a call.
C8_UnblockOnEmptyIsNoOp ==
    /\ (ev \in {"ret_unblock", "ret_unblock_noop"} /\ ~h.upre.outb /\ ~h.upre.inb)
       => (h.undoAttempts = 0 /\ Obj = h.upre)
    /\ ev \in {"ret_unblock", "ret_unblock_noop"} => ~isBlocked

\* An unblock() returned through the early return right after an unblock()
\* that went through unblockLinux.
C8_Witness == ev = "ret_unblock_noop" /\ h.justRevoked

\* The restriction recorded when the last disableLinux() started had its
\* delete commands backgrounded by it.
LagUndoIssued ==
    /\ lh.wasKind = "block" => {"ipt_del_out", "ipt_del_in"} \subseteq lh.launched
    /\ lh.wasKind = "netem" => "tc_del" \in lh.launched

\* C9: unblock() and disable() return true and leave isBlocked() / isActive()
\* false; an unblock() that went through unblockLinux issued a delete command
\* for every PID of both sets and, with a cgroup cached, for the cgroup in
\* both chains, whatever the exit status of the commands before; disable()
\* backgrounded the delete commands of what was recorded.
C9_RevokeNeverFails ==
    /\ ev \in {"ret_unblock", "ret_unblock_noop"} => (retval /\ ~isBlocked)
    /\ ev = "ret_unblock"
       => /\ h.undone.outp = h.upre.pids_out
          /\ h.undone.inp = h.upre.pids_in
          /\ h.upre.cgroup # "" => (h.undone.cgout /\ h.undone.cgin)
    /\ ev = "ret_lag_disable" => (retval /\ ~is_active_ /\ LagUndoIssued)

\* An unblock() returned after it had issued a delete command following a
\* failed one.
C9_Witness == ev = "ret_unblock" /\ h.afterFail /\ retval

\* C10: from block(), or lag() with an interface, until the next
\* disableLinux() the controller is active, whatever the backgrounded
\* commands do meanwhile; and every disableLinux() backgrounds the delete
\* commands of the restriction recorded when it starts.
C10_OptimisticallyActive ==
    /\ lh.kind # "none" => is_active_
    /\ ev = "ret_lag_block" => (is_active_ /\ retval)
    /\ (ev = "ret_lag" /\ default_iface_ # "") => (is_active_ /\ retval)
    /\ lh.wasKind = "block" => {"ipt_del_out", "ipt_del_in"} \subseteq lh.launched
    /\ lh.wasKind = "netem" => "tc_del" \in lh.launched

\* disable() returned after a block() none of whose inserted rules is
\* installed although all its commands have completed: only the delete
\* commands of this disable() are in flight.
C10_Witness ==
    /\ ev = "ret_lag_disable"
    /\ lh.wasKind = "block"
    /\ PendingCount = Cardinality(lh.launched)
    /\ OUTPUT.ours = 0
    /\ INPUT.ours = 0


\* C11: a completed blockLinux for one direction has changed neither the
\* other direction's flag, nor its PID set, nor its chain; each completed
\* blockLinux is the function blockLinux(s, ...) of the state it started in;
\* and from every state between calls, for every process and every answer of
\* the system, blockOutbound then blockInbound gives the same object and the
\* same two chains as blockInbound then blockOutbound.
C11_OtherDirectionUntouched ==
    /\ (ev = "ret_block" /\ ~h.last.inbound)
       => /\ is_blocked_inbound_ = h.pre.inb
          /\ blocked_pids_in_ = h.pre.pids_in
          /\ NETCTRL_IN = h.preIn
    /\ (ev = "ret_block" /\ h.last.inbound)
       => /\ is_blocked_outbound_ = h.pre.outb
          /\ blocked_pids_out_ = h.pre.pids_out
          /\ NETCTRL_OUT = h.preOut

C11_CallIsFunction ==
    ev = "ret_block"
    => \E pid \in {0} \cup PidsOf(h.last.proc), ok \in BOOLEAN :
         \E cg \in {""} \cup {CgroupPathOf(q) : q \in {pid} \cap Pids} :
           Ledger = blockLinux([obj |-> h.pre, o |-> h.preOut, i |-> h.preIn],
                               h.last.proc, h.last.inbound, pid, cg, ok)

C11_OrdersAgree ==
    pc = "client"
    => \A proc \in ProcNames : \A pid \in PidsOf(proc) :
         \A cg \in {"", CgroupPathOf(pid)}, okOut \in BOOLEAN, okIn \in BOOLEAN :
           blockLinux(blockLinux(Ledger, proc, FALSE, pid, cg, okOut),
                      proc, TRUE, pid, cg, okIn)
           = blockLinux(blockLinux(Ledger, proc, TRUE, pid, cg, okIn),
                        proc, FALSE, pid, cg, okOut)

C11_DirectionsIndependent ==
    /\ C11_OtherDirectionUntouched
    /\ C11_CallIsFunction
    /\ C11_OrdersAgree

\* An outbound block followed by an inbound block of the same process, both
\* successful.
C11_Witness ==
    /\ ev = "ret_block" /\ retval
    /\ h.prev.valid /\ h.prev.ok /\ ~h.prev.inbound
    /\ h.last.inbound /\ h.last.proc = h.prev.proc
    /\ is_blocked_outbound_ /\ is_blocked_inbound_


\* Nothing was issued by the program: no chain setup, no library call, no
\* command launched or in flight, no rule or qdisc of ours.
NothingIssued ==
    /\ setupCmds = 0
    /\ h.calls = 0 /\ h.callAdds = 0 /\ h.undoAttempts = 0
    /\ NoRuleInstalled
    /\ lh.calls = 0 /\ lh.launched = {}
    /\ PendingCount = 0
    /\ OUTPUT.ours = 0 /\ INPUT.ours = 0 /\ qdisc # "netem"

C13_NothingRemainsAfterDisable ==
    (/\ pc \in {"lag_client", "lag_destroyed"}
     /\ lh.calls > 0 /\ ~is_active_ /\ lh.kind = "none"
     /\ PendingCount = 0 /\ ~lh.cmdFail)
    => (OUTPUT.ours = 0 /\ INPUT.ours = 0 /\ qdisc # "netem")


\* C14: when lag() returns false, the controller is recorded active exactly
\* if a restriction was recorded when the call started, with the drop
\* percentage of that restriction.
C14_FailedLagChangesNothing ==
    (ev = "ret_lag" /\ ~retval)
    => /\ is_active_ = (lh.wasKind # "none")
       /\ current_drop_percent_ = (IF lh.wasKind = "block" THEN 100 ELSE 0)


\* C15: when block(p) returns, the last two blockLinux calls are its
\* outbound apply followed by its inbound apply, both for p; it returns true
\* exactly when both returned true; and a direction whose apply succeeded
\* is still flagged, with its rule installed, when the other one failed.
C15_BlockAttemptsBoth ==
    ev = "ret_block_both"
    => /\ h.prev.valid /\ ~h.prev.inbound
       /\ h.last.valid /\ h.last.inbound
       /\ h.prev.proc = h.last.proc
       /\ retval = (h.prev.ok /\ h.last.ok)
       /\ h.prev.ok => (is_blocked_outbound_ /\ KeyCount(NETCTRL_OUT, h.prev) >= 1)
       /\ h.last.ok => (is_blocked_inbound_ /\ KeyCount(NETCTRL_IN, h.last) >= 1)

\* block(p) returned false although its inbound apply, made after the
\* outbound one had failed, succeeded and stays in force.
C15_Witness ==
    /\ ev = "ret_block_both" /\ ~retval
    /\ ~h.prev.ok /\ h.last.ok
    /\ is_blocked_inbound_ /\ ~is_blocked_outbound_


\* C16: however many objects the threads construct, the chain-setup command
\* is issued at most once: at most one constructor ever holds `false` from
\* the exchange, and only before any command was issued; and once any
\* constructor is past the exchange the flag is set.
C16_SetupAtMostOnce ==
    /\ setupCmds
         + Cardinality({t \in Threads : ctor.pc[t] = "init_if" /\ ~ctor.old[t]}) <= 1
    /\ (\E t \in Threads : ctor.pc[t] = "init_if" \/ ctor.made[t] > 0) => setup
    /\ setupCmds > 0 => setup

\* Two threads are inside init() at once while a third has constructed an
\* object, and the command was issued once.
C16_Witness ==
    /\ setupCmds = 1
    /\ \E t1 \in Threads, t2 \in Threads :
         /\ t1 # t2
         /\ ctor.pc[t1] = "init_if" /\ ctor.pc[t2] = "init"
         /\ \E t3 \in Threads \ {t1, t2} : ctor.made[t3] = MaxObjects


\* C17: between two calls of the blocker's client, when both direction
\* flags are false the object records no target key: both PID sets are
\* empty and neither a cgroup nor a process name is cached.
C17_FlagsFalseMeansNoKey ==
    (pc = "client" /\ NothingBlocked)
    => /\ blocked_pids_out_ = {}
       /\ blocked_pids_in_ = {}
       /\ blocked_cgroup_ = ""
       /\ process_name_ = ""


\* C18: no step removes a DROP-all rule of OUTPUT or INPUT that someone
\* else installed, nor a root qdisc that someone else set.
C18_KeepsForeign ==
    /\ OUTPUT'.foreign = OUTPUT.foreign
    /\ INPUT'.foreign = INPUT.foreign
    /\ qdisc = "foreign" => qdisc' = "foreign"

C18_DisableDeletesOnlyOwn == [][C18_KeepsForeign]_vars

\* C19: when the lag controller is recorded active after block(), no
\* backgrounded command is still in flight and none of them failed, a DROP
\* rule of the controller is installed in OUTPUT and in INPUT.
C19_ActiveBlockIsInstalled ==
    (/\ pc = "lag_client"
     /\ is_active_ /\ lh.kind = "block"
     /\ PendingCount = 0 /\ ~lh.cmdFail)
    => (OUTPUT.ours >= 1 /\ INPUT.ours >= 1)


\* bool isActive() const / int getLag() const / double getDrop() const
isActive == is_active_
getLag == current_lag_ms_
getDrop == current_drop_percent_

\* C20: while the lag controller is not active getLag() and getDrop() are 0;
\* while it is active they are the parameters of the most recent successful
\* apply: 0 and 100 after block(), the two arguments after lag().
C20_RecordedParameters ==
    /\ ~isActive => (getLag = 0 /\ getDrop = 0)
    /\ isActive => (getLag = lh.lastLag /\ getDrop = lh.lastDrop)
    /\ (isActive /\ lh.kind = "block") => (getLag = 0 /\ getDrop = 100)
    /\ isActive <=> lh.kind # "none"

\* lag(100, 50) succeeded after a block(): the record shows the new
\* parameters, not the block's.
C20_Witness ==
    /\ ev = "ret_lag" /\ retval
    /\ lh.wasKind = "block"
    /\ isActive /\ getLag = 100 /\ getDrop = 50


\* C21: when blockOutbound(p) / blockInbound(p) returns true, the rule it
\* added is keyed by a PID that pgrep prints for p or, when keyed by cgroup,
\* by the cgroup path of such a PID.
C21_RuleTargetsNamedProcess ==
    (ev = "ret_block" /\ retval)
    => /\ h.last.kind = "owner" => h.last.pid \in PidsOf(h.last.proc)
       /\ h.last.kind = "cgroup"
          => h.last.cg \in {CgroupPathOf(q) : q \in PidsOf(h.last.proc)}

====
